---------------------------- MODULE Spec2Model ----------------------------
(***************************************************************************)
(* GMM estimator (src/gmm.py) and HAC long-run covariance estimator        *)
(* (src/mygmm/hac_function.py).                                            *)
(*                                                                         *)
(* Real numbers are exact rationals [n, d] in lowest terms with d > 0, so  *)
(* equality of two computed values is equality of the records.  Matrices   *)
(* are tuples of rows.  The moment function, which the estimator leaves to *)
(* a subclass, is a mean model with one lagged instrument.  The minimizer  *)
(* is the external scipy routine: it evaluates the objective at its start  *)
(* point and at the point it returns, and returns any point and any        *)
(* success flag.                                                           *)
(***************************************************************************)
EXTENDS Integers, Sequences, FiniteSets, TLC

VARIABLES est, given, calls, twin, fed, hvectors, hinput, hkernel, hband, hpc, hcovar

vars == <<est, given, calls, twin, fed, hvectors, hinput, hkernel, hband, hpc, hcovar>>

hvars == <<hvectors, hinput, hkernel, hband, hpc, hcovar>>

(* Bounds of the model. *)
NObs == 4
MaxBand == 1
MaxIter == 2

(* Values of the observations and of the parameter. *)
Vals == {0, 1}
ThetaVals == {0, 1}

(* The kernel names hac implements, and the names a caller may configure. *)
Kernels == {"SU", "Bartlett", "Parzen", "Quadratic"}
KernelNames == Kernels \cup {"Uniform"}

(* Python's None, and a value that is set. *)
None == << >>
Some(v) == <<v>>

---------------------------------------------------------------------------
(* Exact arithmetic on reals. *)

Abs(x) == IF x < 0 THEN -x ELSE x

Max(a, b) == IF a >= b THEN a ELSE b

RECURSIVE Gcd(_, _)
Gcd(a, b) == IF b = 0 THEN a ELSE Gcd(b, a % b)

Rat(n, d) ==
    LET g == Gcd(Abs(n), Abs(d))
        s == IF d < 0 THEN -1 ELSE 1
    IN  [n |-> s * (n \div g), d |-> s * (d \div g)]

Zero == Rat(0, 1)
One == Rat(1, 1)

(* Sums over the least common denominator and products reduced crosswise
   keep the intermediate integers small. *)
RAdd(a, b) ==
    LET g == Gcd(a.d, b.d)
    IN  Rat(a.n * (b.d \div g) + b.n * (a.d \div g), (a.d \div g) * b.d)
RNeg(a) == [n |-> -a.n, d |-> a.d]
RSub(a, b) == RAdd(a, RNeg(b))
RMul(a, b) ==
    LET g1 == Gcd(Abs(a.n), b.d)
        g2 == Gcd(Abs(b.n), a.d)
    IN  [n |-> (a.n \div g1) * (b.n \div g2), d |-> (a.d \div g2) * (b.d \div g1)]
RDiv(a, b) == RMul(a, Rat(b.d, b.n))
RLeq(a, b) ==
    LET g == Gcd(a.d, b.d)
    IN  a.n * (b.d \div g) <= b.n * (a.d \div g)

RECURSIVE ISum(_, _, _)
ISum(F(_), lo, hi) == IF lo > hi THEN 0 ELSE F(lo) + ISum(F, lo + 1, hi)

(* The tuple <<F(1), ..., F(n)>>. *)
RECURSIVE Tuple(_, _)
Tuple(F(_), n) == IF n = 0 THEN << >> ELSE Append(Tuple(F, n - 1), F(n))

(* Matrices are tuples of rows.  A q x q matrix (q is 1 or 2) from its entries. *)
Rows(m) == Len(m)

Mat(F(_, _), q) ==
    IF q = 1 THEN << <<F(1, 1)>> >>
    ELSE << <<F(1, 1), F(1, 2)>>, <<F(2, 1), F(2, 2)>> >>

Vec(F(_), q) == IF q = 0 THEN << >> ELSE IF q = 1 THEN <<F(1)>> ELSE <<F(1), F(2)>>

Transpose(m) == Mat(LAMBDA i, j : m[j][i], Rows(m))

MScale(w, a) == Mat(LAMBDA i, j : RMul(w, a[i][j]), Rows(a))

Eye(q) == Mat(LAMBDA i, j : IF i = j THEN One ELSE Zero, q)

IsSymmetric(m) == \A i \in 1..Rows(m) : \A j \in 1..Rows(m) : m[i][j] = m[j][i]

(* x' m x for a vector x of length 1 or 2. *)
Quad(x, m) ==
    IF Len(x) = 1 THEN RMul(RMul(x[1], m[1][1]), x[1])
    ELSE RAdd(RAdd(RMul(RMul(x[1], m[1][1]), x[1]), RMul(RMul(x[1], m[1][2]), x[2])),
              RAdd(RMul(RMul(x[2], m[2][1]), x[1]), RMul(RMul(x[2], m[2][2]), x[2])))

Det2(m) == RSub(RMul(m[1][1], m[2][2]), RMul(m[1][2], m[2][1]))

(* Positive semi-definite: symmetric with non-negative principal minors. *)
IsPSD(m) ==
    IF Rows(m) = 1 THEN RLeq(Zero, m[1][1])
    ELSE /\ IsSymmetric(m)
         /\ RLeq(Zero, m[1][1])
         /\ RLeq(Zero, m[2][2])
         /\ RLeq(Zero, Det2(m))

---------------------------------------------------------------------------
(* hac: the HAC estimator of the long-run covariance matrix.               *)
(* The array holds integers when hac is called.  The demeaned array is     *)
(* kept as its numerators over the common denominator length.              *)

ColSum(vectors, j) == ISum(LAMBDA t : vectors[t][j], 1, Rows(vectors))

(* vectors -= vectors.mean(0), times length. *)
DemeanNum(vectors, q) ==
    LET length == Rows(vectors)
        s == Vec(LAMBDA j : ColSum(vectors, j), q)
    IN  Tuple(LAMBDA t : Vec(LAMBDA j : length * vectors[t][j] - s[j], q), length)

(* The value the caller's array holds after the subtraction. *)
Demean(vectors, q) ==
    LET length == Rows(vectors)
        s == Vec(LAMBDA j : ColSum(vectors, j), q)
    IN  Tuple(LAMBDA t : Vec(LAMBDA j : Rat(length * vectors[t][j] - s[j], length), q),
              length)

(* Inside hac a matrix is kept as integer numerators num over one
   denominator den; Reduced gives its entries in lowest terms. *)
Reduced(c) == Mat(LAMBDA i, j : Rat(c.num[i][j], c.den), Rows(c.num))

(* vectors[:-lag-1].T.dot(vectors[lag+1:]) / length for lag + 1 = shift, and
   vectors.T.dot(vectors) / length for shift = 0; u is DemeanNum(vectors),
   whose entries are length times those of the array. *)
Gamma(u, q, shift) ==
    LET length == Rows(u)
        n == Max(length - shift, 0)
    IN  [num |-> Mat(LAMBDA i, j : ISum(LAMBDA t : u[t][i] * u[t + shift][j], 1, n), q),
         den |-> length * length * length]

(* 25 / (12 (d pi)^2) * (sin(m)/m - cos(m)) with d = (lag+1)/band and
   m = 6 pi d / 5, rounded to hundredths: the expression is transcendental. *)
QuadraticTable ==
    <<  <<14>>,
        <<69, 14>>,
        <<85, 50, 14>>,
        <<91, 69, 40, 14>> >>

QuadraticWeight(lag, band) == Rat(QuadraticTable[band][lag + 1], 100)

(* The weight of one lag; the kernel is one of Kernels. *)
KernelWeight(kernel, lag, band) ==
    LET a_coef == Rat(lag + 1, band + 1)
        d_coef == Rat(lag + 1, band)
    IN  IF kernel = "SU" THEN Zero
        ELSE IF kernel = "Bartlett"
             THEN IF RLeq(a_coef, One) THEN RSub(One, a_coef) ELSE Zero
        ELSE IF kernel = "Parzen"
             THEN IF RLeq(a_coef, Rat(1, 2))
                  THEN RSub(One, RMul(RMul(Rat(6, 1), RMul(d_coef, d_coef)),
                                      RSub(One, a_coef)))
                  ELSE IF RLeq(a_coef, One)
                       THEN LET c == RSub(One, a_coef)
                            IN  RMul(Rat(2, 1), RMul(c, RMul(c, c)))
                       ELSE Zero
        ELSE QuadraticWeight(lag, band)

(* Variant: the lag term without the transpose. *)
LagTermOneSided(weight, gamma) ==
    [num |-> Mat(LAMBDA i, j : weight.n * (gamma.num[i][j] + gamma.num[i][j]),
                 Rows(gamma.num)),
     den |-> weight.d * gamma.den]

(* covar += weight * (gamma + gamma.T) *)
LagTerm(weight, gamma) ==
    [num |-> Mat(LAMBDA i, j : weight.n * (gamma.num[i][j] + gamma.num[j][i]),
                 Rows(gamma.num)),
     den |-> weight.d * gamma.den]

(* covar += term, over the least common denominator. *)
Accumulate(covar, term) ==
    LET g == Gcd(covar.den, term.den)
        a == term.den \div g
        b == covar.den \div g
    IN  [num |-> Mat(LAMBDA i, j : covar.num[i][j] * a + term.num[i][j] * b,
                     Rows(covar.num)),
         den |-> covar.den * a]

(* for lag in range(band): the loop from lag on; an unknown kernel raises
   in the iteration that meets it.  u is the demeaned array. *)
RECURSIVE HacLoop(_, _, _, _, _, _)
HacLoop(u, q, kernel, band, lag, covar) ==
    IF lag >= band THEN [raised |-> FALSE, covar |-> Reduced(covar)]
    ELSE IF kernel \notin Kernels THEN [raised |-> TRUE, covar |-> Reduced(covar)]
    ELSE HacLoop(u, q, kernel, band, lag + 1,
                 Accumulate(covar, LagTerm(KernelWeight(kernel, lag, band),
                                           Gamma(u, q, lag + 1))))

(* Variant: the kernel name is checked before anything is computed. *)
HacCheckedFirst(vectors, q, kernel, band) ==
    LET u == DemeanNum(vectors, q)
    IN  IF kernel \notin Kernels THEN [raised |-> TRUE, covar |-> Reduced(Gamma(u, q, 0))]
        ELSE HacLoop(u, q, kernel, band, 0, Gamma(u, q, 0))

(* Variant: the array is not demeaned. *)
HacNoDemean(vectors, q, kernel, band) ==
    LET length == Rows(vectors)
        u == Tuple(LAMBDA t : Vec(LAMBDA j : length * vectors[t][j], q), length)
    IN  HacLoop(u, q, kernel, band, 0, Gamma(u, q, 0))

(* hac(vectors, kernel, band): whether it raised, and the matrix it returns. *)
Hac(vectors, q, kernel, band) ==
    LET u == DemeanNum(vectors, q)
    IN  HacLoop(u, q, kernel, band, 0, Gamma(u, q, 0))

(* scipy.linalg.pinv of a 1 x 1 or 2 x 2 matrix: the inverse when there is
   one, A' / |A|_F^2 for a matrix of rank one, zero for zero. *)
Pinv(m) ==
    IF Rows(m) = 1
    THEN IF m[1][1] = Zero THEN m ELSE << <<RDiv(One, m[1][1])>> >>
    ELSE LET det == Det2(m)
             nrm == RAdd(RAdd(RMul(m[1][1], m[1][1]), RMul(m[1][2], m[1][2])),
                         RAdd(RMul(m[2][1], m[2][1]), RMul(m[2][2], m[2][2])))
         IN  IF det # Zero
             THEN << <<RDiv(m[2][2], det), RDiv(RNeg(m[1][2]), det)>>,
                     <<RDiv(RNeg(m[2][1]), det), RDiv(m[1][1], det)>> >>
             ELSE IF nrm = Zero THEN m
             ELSE MScale(RDiv(One, nrm), Transpose(m))

---------------------------------------------------------------------------
(* A direct call of hac on an array the caller holds. *)

IntMatrix(m) == Tuple(LAMBDA t : Vec(LAMBDA j : Rat(m[t][j], 1), Len(m[1])), Rows(m))

HacInputs == [1..NObs -> [1..2 -> Vals]]

HacIdle ==
    /\ hpc = "idle"
    /\ hvectors = None
    /\ hinput = None
    /\ hkernel = "SU"
    /\ hband = 0
    /\ hcovar = None

HacCall ==
    /\ hpc = "idle"
    /\ est.pc = "new"
    /\ \E a \in HacInputs, kernel \in KernelNames, band \in 0..MaxBand :
          LET r == Hac(a, 2, kernel, band)
          IN  /\ hinput' = a
              /\ hkernel' = kernel
              /\ hband' = band
              /\ hvectors' = Demean(a, 2)
              /\ hpc' = IF r.raised THEN "raised" ELSE "returned"
              /\ hcovar' = IF r.raised THEN None ELSE Some(r.covar)
    /\ UNCHANGED <<est, given, calls, twin, fed>>

---------------------------------------------------------------------------
(* The moment function of the model: the mean of a series y with its lagged
   value as instrument.  Row t of g is (y_t - theta, y_{t-1} (y_t - theta));
   without the instrument only the first column is there.  dg is the mean
   over the observations of the derivative, q x 1. *)

Lagged(y, t) == IF t = 1 THEN 0 ELSE y[t - 1]

MomentG(theta, data) ==
    Tuple(LAMBDA t :
            IF data.ninstr = 0 THEN <<data.y[t] - theta[1]>>
            ELSE <<data.y[t] - theta[1], Lagged(data.y, t) * (data.y[t] - theta[1])>>,
          Len(data.y))

MomentDg(theta, data) ==
    LET length == Len(data.y)
    IN  IF data.ninstr = 0 THEN << <<Rat(-length, length)>> >>
        ELSE << <<Rat(-length, length)>>,
                <<Rat(-ISum(LAMBDA t : Lagged(data.y, t), 1, length), length)>> >>

---------------------------------------------------------------------------
(* GMM: the estimator instance is a record of its attributes; pc and i are
   the position of the caller in __init__ and gmmest. *)

DefaultIter == 2

(* int(T ** (1/3)) *)
DefaultBand(T) == CHOOSE b \in 0..T : b * b * b <= T /\ (b + 1) * (b + 1) * (b + 1) > T

Unset ==
    [pc |-> "new", err |-> "none", data |-> None, theta |-> None, T |-> None,
     q |-> None, k |-> None, df |-> None, W |-> None, iter |-> None,
     kernel |-> None, band |-> None, J |-> None, res |-> None, se |-> None,
     t |-> None, pval |-> None, i |-> None]

Fail(e, error) == [e EXCEPT !.pc = "failed", !.err = error]

(* Variant: the degrees of freedom compared with >= instead of >. *)
DfOkLoose(df) == df >= 0

(* assert self.df > 0 *)
DfOk(df) == df > 0

(* assert self.k == len(self.theta) *)
ShapeOk(k, theta) == k = Len(theta)

(* GMM.__init__ *)
ConstructOf(theta, data) ==
    LET g == MomentG(theta, data)
        dg == MomentDg(theta, data)
        e0 == [Unset EXCEPT !.data = data, !.theta = theta]
        e1 == [e0 EXCEPT !.T = Rows(g)]
        e2 == [e1 EXCEPT !.q = Rows(dg), !.k = Len(dg[1])]
        e3 == [e2 EXCEPT !.df = e2.q - e2.k]
    IN  IF ~(e1.T > 0) THEN Fail(e1, "AssertionError:T")
        ELSE IF ~ShapeOk(e2.k, e2.theta) THEN Fail(e2, "AssertionError:k")
        ELSE IF ~DfOk(e3.df) THEN Fail(e3, "AssertionError:df")
        ELSE [e3 EXCEPT !.pc = "constructed", !.W = Eye(e3.q),
                        !.iter = DefaultIter, !.kernel = "Bartlett",
                        !.band = DefaultBand(e3.T)]

(* The caller sets the options it does not leave at their defaults. *)
ConfigureOf(e, iter, kernel, band) ==
    [e EXCEPT !.pc = "ready", !.iter = iter, !.kernel = kernel, !.band = band]

(* GMM.weights: whether hac raised, and pinv(S). *)
WeightsOf(e, theta) ==
    LET r == Hac(MomentG(theta, e.data), e.q, e.kernel, e.band)
    IN  [raised |-> r.raised, W |-> IF r.raised THEN None ELSE Pinv(r.covar)]

(* g.mean(0) *)
MeanG(e, theta) ==
    LET g == MomentG(theta, e.data)
    IN  Vec(LAMBDA j : Rat(ColSum(g, j), Rows(g)), e.q)

(* GMM.gmmobjective: f = g W g'. *)
Objective(e, theta) == Quad(MeanG(e, theta), e.W)

(* assert f >= 0 *)
ObjectiveOk(f) == RLeq(Zero, f)

(* GMM.varest: whether weights raised, and V = pinv(dg' S dg) / T. *)
VarestOf(e, theta) ==
    LET dg == MomentDg(theta, e.data)
        w == WeightsOf(e, theta)
        col == Vec(LAMBDA j : dg[j][1], e.q)
    IN  [raised |-> w.raised,
         V |-> IF w.raised THEN None
               ELSE MScale(Rat(1, e.T), Pinv(<< <<Quad(col, w.W)>> >>))]

(* Variant: gmmest starts from the identity weighting matrix. *)
EnterOfResetW(e) == [e EXCEPT !.pc = "running", !.i = 0, !.W = Eye(e.q)]

(* gmmest up to the loop. *)
EnterOf(e) == [e EXCEPT !.pc = "running", !.i = 0]

(* Variant: the weighting matrix is first replaced one step late. *)
StepWeightsLate(e) ==
    IF e.i > 1 THEN WeightsOf(e, e.theta) ELSE [raised |-> FALSE, W |-> e.W]

(* The weighting matrix of step i: the if i > 0 of the loop. *)
StepWeights(e) ==
    IF e.i > 0 THEN WeightsOf(e, e.theta) ELSE [raised |-> FALSE, W |-> e.W]

(* The evaluations of the objective of e at the points pts: the point and
   the value f that gmmobjective computes there. *)
Evaluations(e, pts) == {[at |-> p, f |-> Objective(e, p)] : p \in pts}

(* What the minimizer returns for a run m that ends: m.x is the point it
   returns, m.success its flag, m.evals its evaluations of the objective,
   the one at m.x among them. *)
ResultOf(m) ==
    [x |-> m.x, fun |-> (CHOOSE ev \in m.evals : ev.at = m.x).f,
     success |-> m.success,
     message |-> IF m.success THEN "terminated successfully" ELSE "not converged"]

(* One call of minimize: None when an evaluation of the objective fails its
   assertion, else the result. *)
MinimizeOf(m) ==
    IF \A ev \in m.evals : ObjectiveOk(ev.f) THEN Some(ResultOf(m)) ELSE None

(* The first half of a pass of the loop: if i > 0, W = weights(theta). *)
ReweightOf(e) ==
    LET w == StepWeights(e)
    IN  IF w.raised THEN Fail(e, "NotImplementedError") ELSE [e EXCEPT !.W = w.W]

(* Variant: the loop ends at the first result that reports no success. *)
MinimizeStepOfStopOnFailure(e, m) ==
    LET out == MinimizeOf(m)
    IN  IF out = None THEN Fail(e, "AssertionError:f")
        ELSE [e EXCEPT !.res = out, !.theta = out[1].x,
                       !.i = IF out[1].success THEN e.i + 1 ELSE e.iter]

(* Variant: the loop does not take over the theta of the result. *)
MinimizeStepOfKeepTheta(e, m) ==
    LET out == MinimizeOf(m)
    IN  IF out = None THEN Fail(e, "AssertionError:f")
        ELSE [e EXCEPT !.res = out, !.i = e.i + 1]

(* The second half: the call of minimize with the run m, and the update of
   theta for the next step. *)
MinimizeStepOf(e, m) ==
    LET out == MinimizeOf(m)
    IN  IF out = None THEN Fail(e, "AssertionError:f")
        ELSE [e EXCEPT !.res = out, !.theta = out[1].x, !.i = e.i + 1]

(* The record of that call of minimize, e1 being the estimator after it. *)
CallOf(e, e1) ==
    [step |-> e.i, x0 |-> e.theta, W |-> e.W,
     out |-> IF e1.pc = "failed" THEN None ELSE e1.res]

(* gmmest after the loop. *)
FinalizeOf(e) ==
    LET v == VarestOf(e, e.theta)
        J == RMul(e.res[1].fun, Rat(e.T, 1))
    IN  IF v.raised THEN Fail(e, "NotImplementedError")
        ELSE IF e.res = None THEN Fail(e, "AttributeError")
        ELSE [e EXCEPT !.pc = "finalized", !.J = Some(J),
                       !.pval = Some([chi2sf |-> J, df |-> e.df]),
                       !.se = Some([sqrt |-> v.V[1][1]]),
                       !.t = Some([theta |-> e.theta, over |-> [sqrt |-> v.V[1][1]]])]

(* After a pass of the loop: the loop ends with its last pass, and gmmest
   goes on to the statistics. *)
AfterPassOf(e) ==
    IF e.pc = "running" /\ e.i >= e.iter THEN FinalizeOf(e) ELSE e

---------------------------------------------------------------------------
(* The caller and the minimizer. *)

Thetas == UNION {[1..n -> ThetaVals] : n \in 1..2}

Datas == [y : [1..NObs -> Vals], ninstr : {0, 1}]

(* The runs of the minimizer: it evaluates the objective at the start point
   and at the point it returns, which is any point, with any success flag. *)
MinimizerRuns(e) ==
    LET evals == Evaluations(e, [1..e.k -> ThetaVals])
    IN  {[x |-> x, success |-> ok,
          evals |-> {ev \in evals : ev.at \in {e.theta, x}}] :
            x \in [1..e.k -> ThetaVals], ok \in BOOLEAN}

Construct ==
    /\ est.pc = "new"
    /\ hpc = "idle"
    /\ \E theta \in Thetas, data \in Datas :
          /\ est' = ConstructOf(theta, data)
          /\ given' = [theta |-> theta, data |-> data]
    /\ UNCHANGED <<calls, twin, fed, hvars>>

Configure ==
    /\ est.pc = "constructed"
    /\ \E iter \in 0..MaxIter, kernel \in KernelNames, band \in 0..MaxBand :
          est' = ConfigureOf(est, iter, kernel, band)
    /\ UNCHANGED <<given, calls, twin, fed, hvars>>

GmmestEnter ==
    /\ est.pc = "ready"
    /\ est' = EnterOf(est)
    /\ UNCHANGED <<given, calls, twin, fed, hvars>>

(* One pass of the loop of gmmest; the last pass runs on to the statistics. *)
GmmestStep ==
    /\ est.pc = "running"
    /\ est.i < est.iter
    /\ \E e \in {ReweightOf(est)} :
          IF e.pc = "failed" THEN est' = e /\ calls' = calls
          ELSE \E m \in MinimizerRuns(e) :
                  \E e1 \in {MinimizeStepOf(e, m)} :
                      /\ est' = AfterPassOf(e1)
                      /\ calls' = Append(calls, CallOf(e, e1))
    /\ UNCHANGED <<given, twin, fed, hvars>>

(* gmmest after a loop without a pass (iter = 0). *)
GmmestFinalize ==
    /\ est.pc = "running"
    /\ est.i >= est.iter
    /\ est' = FinalizeOf(est)
    /\ UNCHANGED <<given, calls, twin, fed, hvars>>

---------------------------------------------------------------------------
(* Two runs side by side with a deterministic minimizer: est runs gmmest once
   with two steps; twin runs it with one step, is fed weights(theta) of its
   result by the caller, and runs it with one step again. *)

(* A search of the grid: the least objective, the start point on a tie with
   it, else the least such point. *)
GridRun(e) ==
    LET evals == Evaluations(e, [1..e.k -> ThetaVals])
        best == {ev.at : ev \in {b \in evals : \A r \in evals : RLeq(b.f, r.f)}}
        x == IF e.theta \in best THEN e.theta
             ELSE CHOOSE p \in best : \A r \in best : p[1] <= r[1]
    IN  [x |-> x, success |-> TRUE, evals |-> evals]

(* One pass of the loop with the grid search as minimizer. *)
DeterministicStepOf(e) ==
    LET e1 == ReweightOf(e)
    IN  IF e1.pc = "failed" THEN e1
        ELSE AfterPassOf(MinimizeStepOf(e1, GridRun(e1)))

(* The caller sets W = weights(theta) on a finished estimator. *)
FeedOf(e) ==
    LET w == WeightsOf(e, e.theta)
    IN  IF w.raised THEN Fail(e, "NotImplementedError")
        ELSE [e EXCEPT !.W = w.W, !.pc = "ready"]

(* The observations of the two runs take one more value, so that the
   re-weighting moves the minimum of the objective over the grid. *)
PairVals == {0, 1, 2}

PairDatas == [y : [1..NObs -> PairVals], ninstr : {0, 1}]

PairConstruct ==
    /\ est.pc = "new"
    /\ \E theta \in Thetas, data \in PairDatas :
          /\ est' = ConstructOf(theta, data)
          /\ twin' = ConstructOf(theta, data)
          /\ given' = [theta |-> theta, data |-> data]
    /\ UNCHANGED <<calls, fed, hvars>>

PairConfigure ==
    /\ est.pc = "constructed"
    /\ \E kernel \in KernelNames, band \in 0..MaxBand :
          /\ est' = ConfigureOf(est, 2, kernel, band)
          /\ twin' = ConfigureOf(twin, 1, kernel, band)
    /\ UNCHANGED <<given, calls, fed, hvars>>

EstEnter ==
    /\ est.pc = "ready"
    /\ est' = EnterOf(est)
    /\ UNCHANGED <<given, calls, twin, fed, hvars>>

EstStep ==
    /\ est.pc = "running"
    /\ est.i < est.iter
    /\ \E e \in {ReweightOf(est)} :
          IF e.pc = "failed" THEN est' = e /\ calls' = calls
          ELSE \E e1 \in {MinimizeStepOf(e, GridRun(e))} :
                  /\ est' = AfterPassOf(e1)
                  /\ calls' = Append(calls, CallOf(e, e1))
    /\ UNCHANGED <<given, twin, fed, hvars>>

TwinEnter ==
    /\ twin.pc = "ready"
    /\ twin' = EnterOf(twin)
    /\ UNCHANGED <<est, given, calls, fed, hvars>>

TwinStep ==
    /\ twin.pc = "running"
    /\ twin.i < twin.iter
    /\ twin' = DeterministicStepOf(twin)
    /\ UNCHANGED <<est, given, calls, fed, hvars>>

TwinFeed ==
    /\ twin.pc = "finalized"
    /\ ~fed
    /\ twin' = FeedOf(twin)
    /\ fed' = TRUE
    /\ UNCHANGED <<est, given, calls, hvars>>

PairInit ==
    /\ est = Unset
    /\ twin = Unset
    /\ given = None
    /\ calls = << >>
    /\ fed = FALSE
    /\ HacIdle

PairNext ==
    \/ PairConstruct \/ PairConfigure
    \/ EstEnter \/ EstStep
    \/ TwinEnter \/ TwinStep \/ TwinFeed

SpecReweight == PairInit /\ [][PairNext]_vars

Init ==
    /\ est = Unset
    /\ given = None
    /\ calls = << >>
    /\ twin = None
    /\ fed = FALSE
    /\ HacIdle

Next == HacCall \/ Construct \/ Configure \/ GmmestEnter \/ GmmestStep \/ GmmestFinalize

Spec == Init /\ [][Next]_vars

---------------------------------------------------------------------------
(* Properties. *)

AfterInit == est.pc \in {"constructed", "ready", "running", "finalized"}
                \/ (est.pc = "failed" /\ est.W # None)

RunEnded == est.W # None /\ est.pc \in {"finalized", "failed"}

AllReturned == \A j \in 1..Len(calls) : calls[j].out # None

LastCall == calls[Len(calls)]

(* The dimensions of the first moment evaluation are invalid. *)
InvalidDims ==
    LET dg == MomentDg(given.theta, given.data)
    IN  Rows(dg) <= Len(dg[1]) \/ Len(dg[1]) # Len(given.theta)

(* C1: an estimator whose first moment evaluation has q <= k, or a Jacobian
   whose column count differs from len(theta), fails in __init__ with an
   assertion error, and no call of the minimizer is made for it. *)
C1_InvalidDimsRejected ==
    (est.pc # "new" /\ InvalidDims) =>
        /\ est.pc = "failed"
        /\ est.err \in {"AssertionError:k", "AssertionError:df"}
        /\ est.W = None
        /\ calls = << >>

C1_Witness ==
    /\ est.pc = "failed"
    /\ est.err = "AssertionError:df"
    /\ est.q <= est.k
    /\ calls = << >>

(* C2: the call of minimize in step 0 uses W = identity; the call in step
   i > 0 uses weights(theta) at the estimate step i-1 returned; and W is
   written nowhere else, so the estimator holds the W of its last call. *)
C2_WeightPerStep ==
    AfterInit =>
        /\ \A j \in 1..Len(calls) :
              /\ calls[j].step = j - 1
              /\ j = 1 => calls[j].W = Eye(est.q)
              /\ j > 1 => /\ calls[j - 1].out # None
                          /\ calls[j].W = WeightsOf(est, calls[j - 1].out[1].x).W
        /\ est.W = IF calls = << >> THEN Eye(est.q) ELSE LastCall.W

C2_Witness ==
    /\ est.pc = "finalized"
    /\ Len(calls) = 2
    /\ calls[1].W = Eye(2)
    /\ calls[2].W # Eye(2)
    /\ calls[1].out[1].x # given.theta

(* C3: one step, then W = weights(theta) of its result fed back and one more
   step, ends at the same theta as one run of two steps from the same start,
   with a deterministic moment function and minimizer. *)
C3_ReweightEquivalence ==
    (est.pc = "finalized" /\ twin.pc = "finalized" /\ fed) =>
        est.theta = twin.theta

C3_Witness ==
    /\ est.pc = "finalized"
    /\ twin.pc = "finalized"
    /\ fed
    /\ est.theta = twin.theta
    /\ Len(calls) = 2
    /\ calls[1].out[1].x # calls[1].x0
    /\ calls[2].out[1].x # calls[2].x0
    /\ calls[2].W # Eye(2)
    /\ est.kernel = "Bartlett"
    /\ est.band = 1

(* C4 as stated: an unknown kernel name makes hac fail for every bandwidth,
   before the input is demeaned, and before any call of minimize is made
   with that configuration. *)
C4_UnknownKernelRejectedFirst ==
    /\ (hpc # "idle" /\ hkernel \notin Kernels) =>
            hpc = "raised" /\ hvectors = IntMatrix(hinput)
    /\ (est.pc \in {"ready", "running", "finalized", "failed"} /\ est.W # None
            /\ est.kernel \notin Kernels) => calls = << >>

(* C4 amended: hac rejects an unknown kernel name in the first pass of its
   lag loop: with bandwidth >= 1 it raises after the input is demeaned in
   place, with bandwidth 0 it raises nothing and returns Gamma0.  In gmmest
   the error surfaces at the first call of weights, which is after the
   minimization of step 0 whenever there is a step. *)
C4_UnknownKernelAtFirstLag ==
    /\ (hpc # "idle" /\ hkernel \notin Kernels /\ hband >= 1) =>
            /\ hpc = "raised"
            /\ hvectors = Demean(hinput, 2)
    /\ (hpc # "idle" /\ hkernel \notin Kernels /\ hband = 0) =>
            /\ hpc = "returned"
            /\ hcovar = Some(Reduced(Gamma(DemeanNum(hinput, 2), 2, 0)))
    /\ (hpc # "idle" /\ hkernel \in Kernels) => hpc = "returned"
    /\ est.err = "NotImplementedError" =>
            /\ est.kernel \notin Kernels
            /\ est.band >= 1
            /\ Len(calls) = IF est.iter >= 1 THEN 1 ELSE 0
            /\ AllReturned
    /\ (RunEnded /\ est.kernel \notin Kernels /\ est.band >= 1 /\ AllReturned) =>
            est.err = "NotImplementedError"

C4_Witness ==
    /\ est.err = "NotImplementedError"
    /\ est.iter = 2
    /\ Len(calls) = 1
    /\ calls[1].out # None

(* C5: the success flag of the minimizer never stops a run: a run fails only
   on an unknown kernel, on the assertion of the objective or for want of a
   result; a run that finalizes has made all its calls, computed J, p-value,
   standard errors and t-statistics from the final theta, and carries the
   result of the last step, message and success flag included. *)
C5_NonConvergenceNotFatal ==
    /\ est.pc = "running" => est.i = Len(calls) /\ AllReturned
    /\ (est.pc = "failed" /\ est.W # None) =>
          \/ est.err = "NotImplementedError" /\ est.kernel \notin Kernels
          \/ est.err = "AssertionError:f" /\ LastCall.out = None
          \/ est.err = "AttributeError" /\ est.iter = 0
    /\ est.pc = "finalized" =>
          /\ Len(calls) = est.iter
          /\ est.res = LastCall.out
          /\ est.theta = est.res[1].x
          /\ est.res[1].message =
                IF est.res[1].success THEN "terminated successfully"
                ELSE "not converged"
          /\ est.J = Some(RMul(Objective(est, est.theta), Rat(est.T, 1)))
          /\ est.pval = Some([chi2sf |-> est.J[1], df |-> est.q - est.k])
          /\ est.se = Some([sqrt |-> VarestOf(est, est.theta).V[1][1]])
          /\ est.t = Some([theta |-> est.theta, over |-> est.se[1]])

C5_Witness ==
    /\ est.pc = "finalized"
    /\ est.iter = 2
    /\ ~calls[1].out[1].success
    /\ ~est.res[1].success
    /\ est.res[1].message = "not converged"

(* The calls of minimize are chained: the first starts from the theta given
   to the constructor, each later one from the theta the one before returned. *)
Chained ==
    \A j \in 1..Len(calls) :
        calls[j].x0 = IF j = 1 THEN given.theta ELSE calls[j - 1].out[1].x

StatsSet == est.J # None /\ est.pval # None /\ est.se # None /\ est.t # None

(* C6 as stated: for every step count n >= 0, a run whose calls of minimize
   all return makes exactly n chained calls and ends finalized with J,
   p-value, standard errors and t-statistics set. *)
C6_EveryStepCountFinalizes ==
    (RunEnded /\ AllReturned) =>
        /\ est.pc = "finalized"
        /\ Len(calls) = est.iter
        /\ Chained
        /\ StatsSet

(* C6 amended: for every step count n >= 1 and a kernel that hac accepts
   (one of the four, or any name with bandwidth 0), a run whose calls of
   minimize all return makes exactly n chained calls and ends finalized with
   J, p-value, standard errors and t-statistics set; and a running estimator
   has made as many calls as steps. *)
C6_PositiveStepCountFinalizes ==
    /\ (RunEnded /\ AllReturned /\ est.iter >= 1
            /\ (est.kernel \in Kernels \/ est.band = 0)) =>
          /\ est.pc = "finalized"
          /\ Len(calls) = est.iter
          /\ Chained
          /\ StatsSet
    /\ est.pc = "running" => /\ est.i = Len(calls)
                             /\ est.i <= est.iter
                             /\ Chained
                             /\ est.theta = IF calls = << >> THEN given.theta
                                            ELSE LastCall.out[1].x

C6_Witness ==
    /\ est.pc = "finalized"
    /\ est.iter = 2
    /\ Len(calls) = 2
    /\ calls[1].out[1].x # given.theta
    /\ calls[2].out[1].x # calls[1].out[1].x
    /\ StatsSet

(* C7: with bandwidth 0 hac returns the sample covariance Gamma0 = v'v/T of
   the column-demeaned input, whatever the kernel. *)
C7_ZeroBandIsGamma0 ==
    (hpc # "idle" /\ hband = 0 /\ hkernel \in Kernels) =>
        /\ hpc = "returned"
        /\ hcovar = Some(Reduced(Gamma(DemeanNum(hinput, 2), 2, 0)))

C7_Witness ==
    /\ hpc = "returned"
    /\ hband = 0
    /\ hkernel = "Parzen"
    /\ hcovar[1][1][2] # Zero

(* C8: the weighting matrix is positive semi-definite in every state, and
   the assertion f >= 0 of gmmobjective never fails during gmmest. *)
C8_WeightPSD ==
    /\ est.err # "AssertionError:f"
    /\ est.W # None => IsPSD(est.W)

(* C9: the matrix hac returns is symmetric, and so is the weighting matrix
   of the estimator in every state. *)
C9_Symmetric ==
    /\ hpc = "returned" => IsSymmetric(hcovar[1])
    /\ est.W # None => IsSymmetric(est.W)

C9_Witness ==
    /\ hpc = "returned"
    /\ hband >= 1
    /\ hkernel = "Bartlett"
    /\ LET gamma == Gamma(DemeanNum(hinput, 2), 2, 1).num
       IN  gamma[1][2] # gamma[2][1]
    /\ hcovar[1][1][2] # Zero

(* C10: hac leaves the array it is given unchanged, whether it returns or
   raises. *)
C10_InputUnchanged ==
    hpc \in {"returned", "raised"} => hvectors = IntMatrix(hinput)
=============================================================================
